---- MODULE Spec2Model ----
(***************************************************************************)
(* A model of self-graph-rag.                                              *)
(*                                                                         *)
(*  - the graph key-value indexing layer (src/modules/graph_index_module   *)
(*    .py): GraphIndexingModule with its two record stores and its two key *)
(*    indexes, and the operations create_entity_key_values and             *)
(*    create_relation_key_value (SpecIndex);                               *)
(*  - the LLM module (src/modules/graph_llm_module.py): the generator      *)
(*    generate_adaptive_answer_stream with its consumer, and               *)
(*    generate_adaptive_answer (SpecLLM);                                  *)
(*  - the system (src/main.py) with the components it constructs and       *)
(*    initializes: the vector index, the hybrid retriever and its graph    *)
(*    index build, the graph retrieval engine and the query router         *)
(*    (SpecSystem);                                                        *)
(*  - the entity loop of the index and the cache loops of the graph        *)
(*    engine run statement by statement beside a reader (SpecThreads).     *)
(*                                                                         *)
(* Python strings are sequences of characters.  A character of the model   *)
(* is a one-character string, or a token that stands for a fixed run of    *)
(* characters of a literal of the source (the Chinese literals are written *)
(* in pinyin because the module is ASCII); no name or id of the pools      *)
(* spells the characters of a token one by one, so equality of model       *)
(* strings is equality of the Python strings.                              *)
(***************************************************************************)
EXTENDS Integers, Sequences, FiniteSets, TLC

VARIABLES
    config,             \* self.config: whether it carries enable_llm_relation_keys
    entity_kv_store,    \* self.entity_kv_store: entity_id -> EntityKeyValue
    relation_kv_store,  \* self.relation_kv_store: relation_id -> RelationKeyValue
    key_to_entities,    \* self.key_to_entities: key -> list of entity ids
    key_to_relations,   \* self.key_to_relations: key -> list of relation ids
    lastCall,           \* the last call: its operation, arguments and outcome
    modules,            \* the attributes of the system that hold a constructed module
    data_module,        \* the recipes, ingredients and cooking_steps of the data module
    traditional_retrieval, \* the HybridRetrievalModule: driver, bm25_retriever, graph_indexed
    graph_retrieval,    \* the GraphRAGRetrievalModule: driver and the two warmed caches
    query_router,       \* the IntelligentQueryRouter: router_status
    system_status,      \* AdvanceGraphRAGSystem.system_status
    system_ready,       \* AdvanceGraphRAGSystem.system_ready, once it is assigned
    index_module,       \* the MilvusIndexModule: collection_created, and its collection
    lastRun,            \* the last operation on the system and what happened in it
    stream,             \* one generate_adaptive_answer_stream generator and its consumer
    answer,             \* the outcome of the last generate_adaptive_answer call
    threads             \* a writer and a reader thread on the shared index and caches

indexVars == <<config, entity_kv_store, relation_kv_store, key_to_entities,
               key_to_relations, lastCall>>

systemVars == <<modules, data_module, index_module, traditional_retrieval,
                graph_retrieval, query_router, system_status, system_ready,
                lastRun>>

llmVars == <<stream, answer>>

vars == <<indexVars, systemVars, llmVars, threads>>

\* no thread is running
NoThreads == [pc |-> "idle", pending |-> <<>>, observed |-> <<>>]

----------------------------------------------------------------------------
(* Bounds of the model *)

\* the lists of the key indexes only grow: calls are made while the entries
\* of an index stay within MaxIndexEntries
MaxIndexEntries == 4
\* the nodes of one create_entity_key_values call, over its three lists
MaxNodes == 2
\* the relations of one create_relation_key_value call
MaxRels == 2

----------------------------------------------------------------------------
(* Python values *)

\* None, kept apart from every string (no string has a several-character element)
None == <<"<None>">>

\* truth value of a str-or-None: None and "" are falsy
Truthy(s) == s # None /\ s # <<>>

\* the properties attribute of a node: missing, None, or a dict
PropsAbsent == [kind |-> "absent", d |-> <<>>]
PropsNone == [kind |-> "None", d |-> <<>>]
PropsDict(d) == [kind |-> "dict", d |-> d]

\* dict.get(key) of a properties dict: None when the key is missing
DictGet(d, key) == IF key \in DOMAIN d THEN d[key] ELSE None

\* str(i) for i >= 0
RECURSIVE Decimal(_)
Decimal(i) ==
    LET digit == <<"0", "1", "2", "3", "4", "5", "6", "7", "8", "9">>[(i % 10) + 1]
    IN IF i < 10 THEN <<digit>> ELSE Decimal(i \div 10) \o <<digit>>

Range(s) == {s[i] : i \in DOMAIN s}

SeqsUpTo(S, n) == UNION {[1..k -> S] : k \in 0..n}

\* the number of entries of a key index, over all its keys
RECURSIVE SumLen(_, _)
SumLen(index, keys) ==
    IF keys = {} THEN 0
    ELSE LET k == CHOOSE x \in keys : TRUE
         IN Len(index[k]) + SumLen(index, keys \ {k})

IndexEntries(index) == SumLen(index, DOMAIN index)

----------------------------------------------------------------------------
(* The inputs the calls are given *)

NodeIds == {<<"1">>, <<"2">>}
SomeDict == PropsDict(("category" :> <<"c">>) @@ ("description" :> <<>>))

\* GraphNode, as far as the index reads it: a node with a name and a
\* properties dict, a node without a name and without the properties
\* attribute, and a node whose properties are None
GraphNode ==
    {[node_id |-> <<"1">>, name |-> <<"x">>, properties |-> SomeDict],
     [node_id |-> <<"2">>, name |-> None, properties |-> PropsAbsent],
     [node_id |-> <<"1">>, name |-> <<"x">>, properties |-> PropsNone]}

\* the relation types the lookup table names, and CONTAINS_STEP, the type of
\* the graph's recipe-to-step relations, which the table does not name
RelationTypes == {<<"REQUIRES">>, <<"HAS_STEP">>, <<"CONTAINS_STEP">>,
                  <<"BELONGS_TO_CATEGORY">>}

\* relations run from node 1 (the recipe of the pool) to either node
RelationTuple == {<<"1">>} \X NodeIds \X RelationTypes

\* what the enrichment LLM call can do
LlmOutcomes == {"raises", "not_json", "json_without_keywords", "keywords"}
LlmKeywords == <<<<"k">>, <<"REQUIRES">>>>

----------------------------------------------------------------------------
(* create_entity_key_values *)

\* the fallback label of a node without a name: type prefix + id
FallbackPrefix(etype) ==
    CASE etype = "Recipe" -> <<"caipu", "_">>
      [] etype = "Ingredient" -> <<"shicai", "_">>
      [] etype = "CookingStep" -> <<"buzhou", "_">>

EntityName(node, etype) ==
    IF Truthy(node.name) THEN node.name ELSE FallbackPrefix(etype) \o node.node_id

\* the optional fields of each type, in the order the content block lists them
ContentFields(etype) ==
    CASE etype = "Recipe" ->
           <<"description", "category", "cuisineType", "difficulty", "cookingTime">>
      [] etype = "Ingredient" -> <<"category", "nutrition", "storage">>
      [] etype = "CookingStep" -> <<"description", "order", "technique", "time">>

\* the content lines of the fields the properties dict holds with a truthy value
RECURSIVE PropertyLines(_, _)
PropertyLines(d, fields) ==
    IF fields = <<>> THEN <<>>
    ELSE LET f == Head(fields)
             rest == PropertyLines(d, Tail(fields))
         IN IF Truthy(DictGet(d, f)) THEN <<<<f, DictGet(d, f)>>>> \o rest ELSE rest

\* content_parts, joined by newlines: the name line, then the property lines
ValueContent(node, etype) ==
    <<<<"name", EntityName(node, etype)>>>> \o
    (IF node.properties.kind = "dict"
     THEN PropertyLines(node.properties.d, ContentFields(etype))
     ELSE <<>>)

\* NewEntityKeyValue with the node's own name as the index key
NewEntityKeyValueRawName(node, etype) ==
    [entity_name |-> EntityName(node, etype),
     index_keys |-> <<node.name>>,
     value_content |-> ValueContent(node, etype),
     entity_type |-> etype,
     metadata |-> [node_id |-> node.node_id,
                   properties |-> IF node.properties.kind = "absent"
                                  THEN PropsDict(<<>>)
                                  ELSE node.properties]]

\* EntityKeyValue(...) as the three loops construct it
NewEntityKeyValue(node, etype) ==
    [entity_name |-> EntityName(node, etype),
     index_keys |-> <<EntityName(node, etype)>>,
     value_content |-> ValueContent(node, etype),
     entity_type |-> etype,
     metadata |-> [node_id |-> node.node_id,
                   properties |-> IF node.properties.kind = "absent"
                                  THEN PropsDict(<<>>)
                                  ELSE node.properties]]

\* store[key] = value
DictSet(store, key, value) ==
    IF key \in DOMAIN store THEN [store EXCEPT ![key] = value]
    ELSE store @@ (key :> value)

\* defaultdict(list): index[key].append(id)
ListAppend(index, key, id) ==
    IF key \in DOMAIN index THEN [index EXCEPT ![key] = Append(@, id)]
    ELSE index @@ (key :> <<id>>)

\* EntityStep with an update that keeps the keys of the record it replaces
EntityStepKeepingKeys(st, node, etype) ==
    IF st.exc # "none" THEN st
    ELSE IF node.properties.kind = "None"
    THEN [st EXCEPT !.exc = "AttributeError"]
    ELSE IF etype = "Ingredient" /\ node.properties.kind = "absent"
    THEN st
    ELSE LET kv == NewEntityKeyValue(node, etype)
             old == IF node.node_id \in DOMAIN st.store
                    THEN st.store[node.node_id].index_keys
                    ELSE <<>>
         IN [st EXCEPT
               !.store = DictSet(@, node.node_id,
                                 [kv EXCEPT !.index_keys = old \o @]),
               !.k2e = ListAppend(@, EntityName(node, etype), node.node_id)]

\* One iteration of one of the three loops.  st carries the two dicts the
\* loop writes and the exception that ended the call, if any.
EntityStep(st, node, etype) ==
    IF st.exc # "none" THEN st
    ELSE IF node.properties.kind = "None"
    THEN \* props.get on None
         [st EXCEPT !.exc = "AttributeError"]
    ELSE IF etype = "Ingredient" /\ node.properties.kind = "absent"
    THEN \* the ingredient record is built inside the hasattr branch
         st
    ELSE [st EXCEPT
            !.store = DictSet(@, node.node_id, NewEntityKeyValue(node, etype)),
            !.k2e = ListAppend(@, EntityName(node, etype), node.node_id)]

RECURSIVE EntityLoop(_, _, _)
EntityLoop(st, nodes, etype) ==
    IF nodes = <<>> THEN st
    ELSE EntityLoop(EntityStep(st, Head(nodes), etype), Tail(nodes), etype)

create_entity_key_values(store, k2e, recipes, ingredients, cooking_steps) ==
    EntityLoop(
        EntityLoop(
            EntityLoop([store |-> store, k2e |-> k2e, exc |-> "none"],
                       recipes, "Recipe"),
            ingredients, "Ingredient"),
        cooking_steps, "CookingStep")

----------------------------------------------------------------------------
(* create_relation_key_value *)

\* RelationId without the ordinal
RelationIdNoOrdinal(i, source_id, target_id) ==
    <<"r", "e", "l", "_">> \o source_id \o <<"_">> \o target_id

\* f"rel_{i}_{source_id}_{target_id}"
RelationId(i, source_id, target_id) ==
    <<"r", "e", "l", "_">> \o Decimal(i) \o <<"_">> \o source_id
        \o <<"_">> \o target_id

\* the theme keys of the lookup table of _generate_relation_index_keys
ThemeKeys(source_entity, target_entity, relation_type) ==
    CASE relation_type = <<"REQUIRES">> ->
           <<<<"shicaidapei">>, <<"pengrenyuanliao">>,
             source_entity.entity_name \o <<"_", "shicai">>,
             target_entity.entity_name>>
      [] relation_type = <<"HAS_STEP">> ->
           <<<<"zhizuobuzhou">>, <<"pengrenguocheng">>,
             source_entity.entity_name \o <<"_", "buzhou">>,
             <<"zhizuofangfa">>>>
      [] relation_type = <<"BELONGS_TO_CATEGORY">> ->
           <<<<"caipinfenlei">>, <<"meishileibie">>, target_entity.entity_name>>
      [] OTHER -> <<>>

\* hasattr(self.config, "enable_llm_relation_keys", False): the builtin takes
\* exactly two arguments, so the call raises TypeError whatever the config
ConfigHasattr(cfg) == "TypeError"

\* _llm_enhance_relation_keys: the keywords of the response, [] on any
\* exception inside the try block
LlmEnhanceRelationKeys(llm) ==
    CASE llm = "raises" -> <<>>
      [] llm = "not_json" -> <<>>
      [] llm = "json_without_keywords" -> <<>>
      [] llm = "keywords" -> LlmKeywords
      [] OTHER -> <<>>

\* _generate_relation_index_keys: the keys (list(set(keys)): no key twice, in
\* no specified order) or the exception it raises
GenerateRelationIndexKeys(cfg, source_entity, target_entity, relation_type, llm) ==
    LET keys == <<relation_type>>
                    \o ThemeKeys(source_entity, target_entity, relation_type)
        has == ConfigHasattr(cfg)
    IN IF has = "TypeError" THEN [exc |-> "TypeError", keys |-> {}]
       ELSE IF has = "True"
       THEN [exc |-> "none", keys |-> Range(keys \o LlmEnhanceRelationKeys(llm))]
       ELSE [exc |-> "none", keys |-> Range(keys)]

\* `if not source_entity or not target_entity` after the two store.get calls
EndpointMissing(store, source_id, target_id) ==
    source_id \notin DOMAIN store \/ target_id \notin DOMAIN store

RECURSIVE AppendForKeys(_, _, _)
AppendForKeys(index, keys, id) ==
    IF keys = {} THEN index
    ELSE LET k == CHOOSE x \in keys : TRUE
         IN AppendForKeys(ListAppend(index, k, id), keys \ {k}, id)

\* RelationStep that stores a record for every relation it is given, built
\* from the relation alone, without looking its endpoints up
RelationStepWithoutLookup(st, cfg, estore, i, rel, llm) ==
    IF st.exc # "none" THEN st
    ELSE
    LET relation_id == RelationId(i, rel[1], rel[2])
        relation_kv ==
            [relation_id |-> relation_id,
             index_keys |-> {rel[3]},
             value_content |-> <<<<"type", rel[3]>>>>,
             relation_type |-> rel[3],
             source_entity |-> rel[1],
             target_entity |-> rel[2],
             metadata |-> [source_name |-> rel[1], target_name |-> rel[2],
                           created_from_graph |-> TRUE]]
    IN [st EXCEPT
          !.ids = Append(@, relation_id),
          !.store = DictSet(@, relation_id, relation_kv),
          !.k2r = AppendForKeys(@, {rel[3]}, relation_id)]

\* One iteration of the loop over enumerate(relationships).  st carries the
\* two dicts the loop writes, the ids it has assigned, the ids it has warned
\* about and the exception that ended the call, if any.
RelationStep(st, cfg, estore, i, rel, llm) ==
    IF st.exc # "none" THEN st
    ELSE
    LET source_id == rel[1]
        target_id == rel[2]
        relation_type == rel[3]
        relation_id == RelationId(i, source_id, target_id)
        st1 == [st EXCEPT !.ids = Append(@, relation_id)]
    IN IF EndpointMissing(estore, source_id, target_id)
       THEN [st1 EXCEPT !.warned = Append(@, relation_id)]
       ELSE
       LET source_entity == estore[source_id]
           target_entity == estore[target_id]
           gen == GenerateRelationIndexKeys(cfg, source_entity, target_entity,
                                            relation_type, llm)
           relation_kv ==
               [relation_id |-> relation_id,
                index_keys |-> gen.keys,
                value_content |-> <<<<"type", relation_type>>,
                                    <<"source", source_entity.entity_name>>,
                                    <<"target", target_entity.entity_name>>>>,
                relation_type |-> relation_type,
                source_entity |-> source_id,
                target_entity |-> target_id,
                metadata |-> [source_name |-> source_entity.entity_name,
                              target_name |-> target_entity.entity_name,
                              created_from_graph |-> TRUE]]
       IN IF gen.exc # "none" THEN [st1 EXCEPT !.exc = gen.exc]
          ELSE [st1 EXCEPT
                  !.store = DictSet(@, relation_id, relation_kv),
                  !.k2r = AppendForKeys(@, gen.keys, relation_id)]

RECURSIVE RelationLoop(_, _, _, _, _, _)
RelationLoop(st, cfg, estore, i, rels, llm) ==
    IF i >= Len(rels) THEN st
    ELSE RelationLoop(RelationStep(st, cfg, estore, i, rels[i + 1], llm),
                      cfg, estore, i + 1, rels, llm)

create_relation_key_value(cfg, estore, rstore, k2r, relationships, llm) ==
    RelationLoop([store |-> rstore, k2r |-> k2r, ids |-> <<>>, warned |-> <<>>,
                  exc |-> "none"],
                 cfg, estore, 0, relationships, llm)

----------------------------------------------------------------------------
(* The state machine of one GraphIndexingModule *)

NoCall == [op |-> "none", recipes |-> <<>>, ingredients |-> <<>>,
           cooking_steps |-> <<>>, relationships |-> <<>>, exc |-> "none",
           ids |-> <<>>, warned |-> <<>>, llm |-> "unused", repeat |-> FALSE]

\* the LLM is consulted only when a relation is accepted and the flag test
\* says the config carries the flag
LlmChoices(cfg, estore, relationships) ==
    IF /\ ConfigHasattr(cfg) = "True"
       /\ \E i \in DOMAIN relationships :
            ~EndpointMissing(estore, relationships[i][1], relationships[i][2])
    THEN LlmOutcomes
    ELSE {"unused"}

\* the effect of create_entity_key_values(recipes, ingredients, cooking_steps)
CallEntities(recipes, ingredients, cooking_steps, again) ==
    LET r == create_entity_key_values(entity_kv_store, key_to_entities,
                                      recipes, ingredients, cooking_steps)
    IN /\ IndexEntries(r.k2e) <= MaxIndexEntries
       /\ entity_kv_store' = r.store
       /\ key_to_entities' = r.k2e
       /\ lastCall' = [NoCall EXCEPT
              !.op = "entities",
              !.recipes = recipes,
              !.ingredients = ingredients,
              !.cooking_steps = cooking_steps,
              !.exc = r.exc,
              !.repeat = again]
       /\ UNCHANGED <<config, relation_kv_store, key_to_relations>>
       /\ UNCHANGED <<systemVars, llmVars, threads>>

\* the effect of create_relation_key_value(relationships)
CallRelations(relationships, again) ==
    \E llm \in LlmChoices(config, entity_kv_store, relationships) :
      LET r == create_relation_key_value(config, entity_kv_store,
                                         relation_kv_store, key_to_relations,
                                         relationships, llm)
      IN /\ IndexEntries(r.k2r) <= MaxIndexEntries
         /\ relation_kv_store' = r.store
         /\ key_to_relations' = r.k2r
         /\ lastCall' = [NoCall EXCEPT
                !.op = "relations",
                !.relationships = relationships,
                !.exc = r.exc,
                !.ids = r.ids,
                !.warned = r.warned,
                !.llm = llm,
                !.repeat = again]
         /\ UNCHANGED <<config, entity_kv_store, key_to_entities>>
         /\ UNCHANGED <<systemVars, llmVars, threads>>

\* the caller calls create_entity_key_values with new arguments
IndexEntities ==
    /\ lastCall.op = "none"
    /\ \E nodes \in SeqsUpTo(GraphNode, MaxNodes) :
       \E a \in 0..Len(nodes) :
       \E b \in a..Len(nodes) :
         CallEntities(SubSeq(nodes, 1, a), SubSeq(nodes, a + 1, b),
                      SubSeq(nodes, b + 1, Len(nodes)), FALSE)

\* the caller calls create_relation_key_value with a new argument
IndexRelations ==
    /\ lastCall.op = "none"
    /\ \E relationships \in SeqsUpTo(RelationTuple, MaxRels) :
         CallRelations(relationships, FALSE)

\* the caller makes the last call again, with the same arguments
IndexEntitiesAgain ==
    /\ lastCall.op = "entities"
    /\ CallEntities(lastCall.recipes, lastCall.ingredients,
                    lastCall.cooking_steps, TRUE)

IndexRelationsAgain ==
    /\ lastCall.op = "relations"
    /\ CallRelations(lastCall.relationships, TRUE)

\* the caller drops the arguments and the result of the last call
Discard ==
    /\ lastCall.op # "none"
    /\ lastCall' = NoCall
    /\ UNCHANGED <<config, entity_kv_store, relation_kv_store, key_to_entities,
                   key_to_relations>>
    /\ UNCHANGED <<systemVars, llmVars, threads>>

NextIndex ==
    \/ IndexEntities
    \/ IndexRelations
    \/ IndexEntitiesAgain
    \/ IndexRelationsAgain
    \/ Discard

----------------------------------------------------------------------------
(* What the last call was given *)

\* the nodes of the last create_entity_key_values call, each with the type
\* of the list it came in, in the order the call reads them
PassedNodes ==
    [i \in 1..Len(lastCall.recipes) |-> <<lastCall.recipes[i], "Recipe">>]
    \o [i \in 1..Len(lastCall.ingredients) |->
            <<lastCall.ingredients[i], "Ingredient">>]
    \o [i \in 1..Len(lastCall.cooking_steps) |->
            <<lastCall.cooking_steps[i], "CookingStep">>]

\* the relation at position i of the last create_relation_key_value call has
\* both endpoints in the entity store
Accepted(i) ==
    ~EndpointMissing(entity_kv_store, lastCall.relationships[i][1],
                     lastCall.relationships[i][2])

\* the id the call gives the relation at position i (ordinal i - 1)
IdOfRelation(i) ==
    RelationId(i - 1, lastCall.relationships[i][1], lastCall.relationships[i][2])

----------------------------------------------------------------------------
(* C1 *)

\* C1: every RelationRecord of the relation store has a source_entity and a
\* target_entity that are ids of the entity store (which never loses an id),
\* and no relation the last call skipped for an unknown endpoint is stored.
C1_RelationEndpointsIndexed ==
    /\ \A rid \in DOMAIN relation_kv_store :
         /\ relation_kv_store[rid].source_entity \in DOMAIN entity_kv_store
         /\ relation_kv_store[rid].target_entity \in DOMAIN entity_kv_store
    /\ lastCall.op = "relations" =>
         \A i \in DOMAIN lastCall.relationships :
            (~Accepted(i) /\ i <= Len(lastCall.ids)) =>
                /\ IdOfRelation(i) \in Range(lastCall.warned)
                /\ IdOfRelation(i) \notin DOMAIN relation_kv_store

\* C1 witness: with an entity indexed, a call was given a relation with an
\* unknown endpoint, skipped it with a warning and returned.
C1_Witness ==
    /\ lastCall.op = "relations"
    /\ lastCall.exc = "none"
    /\ DOMAIN entity_kv_store # {}
    /\ \E i \in DOMAIN lastCall.relationships :
         ~Accepted(i) /\ IdOfRelation(i) \in Range(lastCall.warned)

----------------------------------------------------------------------------
(* C2 *)

\* C2: every EntityRecord of the entity store has its entity_name among its
\* index_keys.
C2_NameInIndexKeys ==
    \A id \in DOMAIN entity_kv_store :
        entity_kv_store[id].entity_name \in Range(entity_kv_store[id].index_keys)

\* C2 witness: the store holds a step record under a synthesized fallback
\* name and an ingredient record under the node's own name.
C2_Witness ==
    /\ \E id \in DOMAIN entity_kv_store :
         /\ entity_kv_store[id].entity_type = "CookingStep"
         /\ entity_kv_store[id].entity_name = FallbackPrefix("CookingStep") \o id
    /\ \E id \in DOMAIN entity_kv_store :
         /\ entity_kv_store[id].entity_type = "Ingredient"
         /\ entity_kv_store[id].entity_name = <<"x">>

----------------------------------------------------------------------------
(* C3 *)

HasNoDuplicate(seq) == \A i, j \in DOMAIN seq : i # j => seq[i] # seq[j]

IdsUnder(index, k) == IF k \in DOMAIN index THEN Range(index[k]) ELSE {}

\* C3: the key indexes are derived from the record stores: under every key,
\* key_to_entities lists each entity id at most once and lists exactly the
\* stored entities whose index_keys include the key, and key_to_relations
\* lists exactly the stored relations whose index_keys include the key.
C3_KeyIndexDerived ==
    /\ \A k \in DOMAIN key_to_entities : HasNoDuplicate(key_to_entities[k])
    /\ \A k \in DOMAIN key_to_entities \cup
                UNION {Range(entity_kv_store[id].index_keys) :
                         id \in DOMAIN entity_kv_store} :
         IdsUnder(key_to_entities, k) =
            {id \in DOMAIN entity_kv_store :
                k \in Range(entity_kv_store[id].index_keys)}
    /\ \A k \in DOMAIN key_to_relations \cup
                UNION {relation_kv_store[rid].index_keys :
                         rid \in DOMAIN relation_kv_store} :
         IdsUnder(key_to_relations, k) =
            {rid \in DOMAIN relation_kv_store :
                k \in relation_kv_store[rid].index_keys}

----------------------------------------------------------------------------
(* C4 *)

\* C4: a create_entity_key_values call that repeats the call before it, with
\* the same recipes, ingredients and steps, leaves the entity store as the
\* first call left it, record for record and field for field.
C4_RepeatLeavesStore ==
    [][(lastCall'.op = "entities" /\ lastCall'.repeat)
          => entity_kv_store' = entity_kv_store]_vars

\* C4 witness: a call that stored records has been repeated.
C4_Witness ==
    /\ lastCall.op = "entities"
    /\ lastCall.repeat
    /\ lastCall.exc = "none"
    /\ Len(PassedNodes) = MaxNodes
    /\ \A i \in DOMAIN PassedNodes :
         PassedNodes[i][1].node_id \in DOMAIN entity_kv_store

----------------------------------------------------------------------------
(* C5 *)

\* C5: for every node of the last create_entity_key_values call, the ids of
\* the call being pairwise distinct and every node carrying a properties
\* dict or no properties attribute at all, the store holds a record under
\* the node's id with the type of the node's list and with the node's name,
\* or the fallback label when the node has no name.
C5_EveryNodeIndexed ==
    (/\ lastCall.op = "entities"
     /\ \A i, j \in DOMAIN PassedNodes :
          i # j => PassedNodes[i][1].node_id # PassedNodes[j][1].node_id
     /\ \A i \in DOMAIN PassedNodes :
          PassedNodes[i][1].properties.kind # "None")
    => \A i \in DOMAIN PassedNodes :
         LET node == PassedNodes[i][1]
             etype == PassedNodes[i][2]
         IN /\ node.node_id \in DOMAIN entity_kv_store
            /\ entity_kv_store[node.node_id].entity_type = etype
            /\ entity_kv_store[node.node_id].entity_name =
                 IF Truthy(node.name) THEN node.name
                 ELSE FallbackPrefix(etype) \o node.node_id

----------------------------------------------------------------------------
(* C6 *)

\* the record the relation store holds for the relation at position i
StoredRelation(i) == relation_kv_store[IdOfRelation(i)]

\* C6: for every relation of the last create_relation_key_value call with
\* both endpoints indexed, a RelationRecord is stored for it, with its
\* endpoints and type, whose index_keys contain its relation_type (the keys
\* are a set: no key twice), whatever the enrichment flag.
C6_AcceptedRelationStored ==
    lastCall.op = "relations" =>
        \A i \in DOMAIN lastCall.relationships :
            Accepted(i) =>
                /\ IdOfRelation(i) \in DOMAIN relation_kv_store
                /\ StoredRelation(i).source_entity = lastCall.relationships[i][1]
                /\ StoredRelation(i).target_entity = lastCall.relationships[i][2]
                /\ StoredRelation(i).relation_type = lastCall.relationships[i][3]
                /\ lastCall.relationships[i][3] \in StoredRelation(i).index_keys

----------------------------------------------------------------------------
(* C7 *)

\* the theme keys C7 gives each relation type
C7_ClaimedThemeKeys(source_name, target_name, relation_type) ==
    CASE relation_type = <<"REQUIRES">> ->
           {<<"shicaidapei">>, <<"pengrenyuanliao">>,
            source_name \o <<"_", "shicai">>, target_name}
      [] relation_type = <<"CONTAINS_STEP">> ->
           {<<"zhizuobuzhou">>, <<"pengrenguocheng">>,
            source_name \o <<"_", "buzhou">>, <<"zhizuofangfa">>}
      [] relation_type = <<"BELONGS_TO_CATEGORY">> ->
           {<<"caipinfenlei">>, <<"meishileibie">>, target_name}
      [] OTHER -> {}

\* C7: with enrichment disabled, the index keys of an accepted relation are
\* its relation_type plus the theme keys of the table row of its type, at most
\* 4 of them: the ingredient themes for REQUIRES, the step themes for
\* CONTAINS_STEP, the classification themes for BELONGS_TO_CATEGORY, none for
\* any other type.
C7_ThemeKeysByType ==
    (config = "without_flag" /\ lastCall.op = "relations") =>
        \A i \in DOMAIN lastCall.relationships :
            Accepted(i) =>
                LET rel == lastCall.relationships[i]
                    claimed == C7_ClaimedThemeKeys(
                                   entity_kv_store[rel[1]].entity_name,
                                   entity_kv_store[rel[2]].entity_name, rel[3])
                IN /\ IdOfRelation(i) \in DOMAIN relation_kv_store
                   /\ StoredRelation(i).index_keys = {rel[3]} \cup claimed
                   /\ Cardinality(claimed) <= 4

----------------------------------------------------------------------------
(* C8 *)

\* C8: with enrichment enabled, create_relation_key_value never raises, it
\* stores every accepted relation, and when the LLM call failed or answered
\* something other than a JSON object with keywords, the stored keys are
\* exactly the non-enriched keys.
C8_EnrichmentNeverAborts ==
    (config = "with_flag" /\ lastCall.op = "relations") =>
        /\ lastCall.exc = "none"
        /\ \A i \in DOMAIN lastCall.relationships :
             Accepted(i) =>
                LET rel == lastCall.relationships[i]
                IN /\ IdOfRelation(i) \in DOMAIN relation_kv_store
                   /\ lastCall.llm # "keywords" =>
                        StoredRelation(i).index_keys =
                            {rel[3]} \cup Range(ThemeKeys(entity_kv_store[rel[1]],
                                                           entity_kv_store[rel[2]],
                                                           rel[3]))

----------------------------------------------------------------------------
(* C9 *)

\* C9: no call raises; after a create_entity_key_values call every node of
\* the call that carries a properties dict is indexed, whatever else the
\* call was given, and after a create_relation_key_value call every relation
\* of the call with both endpoints indexed is stored.
C9_NoBadRecordAborts ==
    /\ lastCall.exc = "none"
    /\ lastCall.op = "entities" =>
         \A i \in DOMAIN PassedNodes :
            PassedNodes[i][1].properties.kind = "dict" =>
                PassedNodes[i][1].node_id \in DOMAIN entity_kv_store
    /\ lastCall.op = "relations" =>
         \A i \in DOMAIN lastCall.relationships :
            Accepted(i) => IdOfRelation(i) \in DOMAIN relation_kv_store

----------------------------------------------------------------------------
(* C10 *)

----------------------------------------------------------------------------
(* The hybrid retriever: HybridRetrievalModule                              *)
(* (src/modules/hybird_retrieval_module.py).  Its graph_indexing is the     *)
(* GraphIndexingModule of the index variables.                              *)

\* the methods the class GraphIndexingModule defines
GraphIndexingModuleMethods ==
    {"create_entity_key_values", "create_relation_key_value",
     "_generate_relation_index_keys", "_llm_enhance_relation_keys"}

\* looking a method up on a GraphIndexingModule: a name the class does not
\* define raises AttributeError
MethodLookup(name) ==
    IF name \in GraphIndexingModuleMethods THEN "none" ELSE "AttributeError"

\* the methods the class HybridRetrievalModule defines
HybridRetrievalModuleMethods ==
    {"__init__", "initialize", "_build_graph_index",
     "_extract_relationships_from_graph"}

\* looking a method up on an object of a class with these methods: a name
\* the class does not define raises AttributeError
AttributeLookup(methods, name) ==
    IF name \in methods THEN "none" ELSE "AttributeError"

\* HybridRetrievalModule.__init__
NewHybridRetrieval ==
    [driver |-> "None", bm25_retriever |-> "None", graph_indexed |-> FALSE]

\* the relations of the graph a relation query returns: rows of
\* (source, target, type)
GraphEdges == SeqsUpTo({<<<<"1">>, <<"2">>, <<"REQUIRES">>>>}, MaxRels)

\* what the graph database does during one initialize: whether creating the
\* driver raises, the rows of the relation query, and how many of them are
\* read before the session fails (all of them when it does not)
HybridEnv ==
    {e \in [driver : {"returns", "raises"}, edges : GraphEdges, read : 0..MaxRels] :
        e.read <= Len(e.edges)}

\* _extract_relationships_from_graph: a tuple (source_id, relation_type,
\* target_id) for every row read; a failure is logged and what was read so
\* far is returned
extract_relationships_from_graph(edges, read) ==
    [i \in 1..read |-> <<edges[i][1], edges[i][3], edges[i][2]>>]

\* the stores of a GraphIndexingModule, as one value
IndexOf(estore, k2e, rstore, k2r) ==
    [estore |-> estore, k2e |-> k2e, rstore |-> rstore, k2r |-> k2r]

\* the rows of the relation query that were read
RowsRead(edges, read) == SubSeq(edges, 1, read)

\* _build_graph_index: what it leaves, the statement it reached, the
\* exception its except clause caught, whether it issued the relation
\* query, the rows it read and the tuples it made of them
build_graph_index(h, cfg, ix, data, env, llm) ==
    LET e == create_entity_key_values(ix.estore, ix.k2e, data.recipes,
                                      data.ingredients, data.cooking_steps)
        relationships == extract_relationships_from_graph(env.edges, env.read)
        r == create_relation_key_value(cfg, e.store, ix.rstore, ix.k2r,
                                       relationships, llm)
        ixe == [ix EXCEPT !.estore = e.store, !.k2e = e.k2e]
        ixr == [ixe EXCEPT !.rstore = r.store, !.k2r = r.k2r]
        dedup == MethodLookup("deduplicate_entities_and_relations")
        stats == MethodLookup("get_statistics")
        out(h1, ix1, reached, exc, queried) ==
            [h |-> h1, ix |-> ix1, exc |-> "none", built |-> TRUE,
             reached |-> reached, build_exc |-> exc, queried |-> queried,
             rows |-> IF queried THEN RowsRead(env.edges, env.read) ELSE <<>>,
             relationships |-> IF queried THEN relationships ELSE <<>>]
    IN IF h.graph_indexed
       THEN [h |-> h, ix |-> ix, exc |-> "none", built |-> FALSE,
             reached |-> "return", build_exc |-> "none", queried |-> FALSE,
             rows |-> <<>>, relationships |-> <<>>]
       ELSE IF e.exc # "none"
       THEN out(h, ixe, "create_entity_key_values", e.exc, FALSE)
       ELSE IF r.exc # "none"
       THEN out(h, ixr, "create_relation_key_value", r.exc, TRUE)
       ELSE IF dedup # "none"
       THEN out(h, ixr, "deduplicate_entities_and_relations", dedup, TRUE)
       ELSE IF stats # "none"
       THEN out([h EXCEPT !.graph_indexed = TRUE], ixr, "get_statistics",
                stats, TRUE)
       ELSE out([h EXCEPT !.graph_indexed = TRUE], ixr, "done", "none", TRUE)

\* HybridRetrievalModule.initialize(chunks)
hybrid_initialize(h, cfg, ix, data, chunks, env, llm) ==
    IF env.driver = "raises"
    THEN [h |-> h, ix |-> ix, exc |-> "ServiceUnavailable", built |-> FALSE,
          reached |-> "none", build_exc |-> "none", queried |-> FALSE,
          rows |-> <<>>, relationships |-> <<>>]
    ELSE build_graph_index(
             [h EXCEPT !.driver = "set",
                       !.bm25_retriever = IF chunks = "some" THEN "set" ELSE @],
             cfg, ix, data, env, llm)

\* the outcomes of the enrichment LLM during the build of one initialize
HybridLlmChoices(cfg, ix, data, env) ==
    LlmChoices(cfg,
               create_entity_key_values(ix.estore, ix.k2e, data.recipes,
                                        data.ingredients, data.cooking_steps).store,
               extract_relationships_from_graph(env.edges, env.read))

----------------------------------------------------------------------------
(* The graph retrieval engine: GraphRAGRetrievalModule                      *)
(* (src/modules/graph_rag_retrieval_module.py)                              *)

\* the methods the class GraphRAGRetrievalModule defines
GraphRAGRetrievalModuleMethods == {"__init__", "initialize", "_build_graph_index"}

\* GraphRAGRetrievalModule.__init__
NewGraphRetrieval ==
    [driver |-> "None", entity_cache |-> "empty", relation_cache |-> "empty",
     subgraph_cache |-> "empty"]

\* what the graph database does during one initialize: the connection (the
\* driver call raises, the test query raises, or both return), and how far
\* each of the two warm-up queries is read; the relation query runs after
\* the entity query has been read in full
GraphEnv ==
    {e \in [connect : {"ok", "driver_raises", "session_raises"},
            entities : {"empty", "partial", "full"},
            relations : {"empty", "partial", "full"}] :
        /\ e.connect # "ok" => e.entities = "empty"
        /\ e.entities # "full" => e.relations = "empty"}

\* a cache after more entries are assigned into it
CacheAfter(old, got) ==
    IF old = "full" \/ got = "full" THEN "full"
    ELSE IF old = "partial" \/ got = "partial" THEN "partial"
    ELSE "empty"

\* GraphRAGRetrievalModule.initialize with its _build_graph_index: a failed
\* connection is logged and the call returns; a failed warm-up query is
\* logged and leaves what was cached so far
graph_initialize(g, env) ==
    IF env.connect = "driver_raises" THEN g
    ELSE IF env.connect = "session_raises" THEN [g EXCEPT !.driver = "set"]
    ELSE [g EXCEPT
            !.driver = "set",
            !.entity_cache = CacheAfter(g.entity_cache, env.entities),
            !.relation_cache = CacheAfter(g.relation_cache, env.relations)]

----------------------------------------------------------------------------
(* The query router: IntelligentQueryRouter (src/modules/query_router.py)   *)

\* IntelligentQueryRouter.__init__
NewQueryRouter ==
    [router_status |-> ("traditional_count" :> 0) @@ ("graph_retrieval_count" :> 0)
                       @@ ("combined_count" :> 0) @@ ("total_query" :> 0)]

\* count / total, kept as the pair of the two integers
Ratio(count, total) == <<count, total>>

\* get_route_statistics: a subscript with a key the dict does not hold raises
\* KeyError; the dict display reads its keys in the order it is written
get_route_statistics(status) ==
    IF "total_queries" \notin DOMAIN status
    THEN [exc |-> "KeyError", value |-> <<>>]
    ELSE IF status["total_queries"] = 0
    THEN [exc |-> "none", value |-> status]
    ELSE IF {"traditional_count", "graph_rag_count", "combined_count"}
                \subseteq DOMAIN status
    THEN [exc |-> "none",
          value |-> ("traditional_ratio" :>
                        Ratio(status["traditional_count"], status["total_queries"]))
                    @@ ("graph_rag_ratio" :>
                        Ratio(status["graph_rag_count"], status["total_queries"]))
                    @@ ("combined_ratio" :>
                        Ratio(status["combined_count"], status["total_queries"]))
                    @@ status]
    ELSE [exc |-> "KeyError", value |-> <<>>]

\* the counters get_route_statistics reads from router_status
StatisticsKeys ==
    {"total_queries", "traditional_count", "graph_rag_count", "combined_count"}

----------------------------------------------------------------------------
(* The vector index: MilvusIndexModule (src/modules/milvus_index_module.py) *)
(* with the collection of config.collection_name in the Milvus server:      *)
(* absent, existing (as found at start), created (dropped if it was there   *)
(* and created anew, empty), filled (the vectors inserted) or indexed.       *)

\* MilvusIndexModule.__init__, connected to a server in which the collection
\* is in the given state
NewIndexModule(collection) ==
    [collection |-> collection, collection_created |-> FALSE]

\* has_collection: an exception of the client is logged and answered False
has_collection(m, has) ==
    IF has = "raises" THEN FALSE ELSE m.collection # "absent"

\* load_collection: False when the collection is not there or the client
\* raises, else collection_created is set and True is returned
load_collection(m, has, loadc) ==
    IF has = "raises" \/ m.collection = "absent" \/ loadc = "raises"
    THEN [m |-> m, value |-> FALSE]
    ELSE [m |-> [m EXCEPT !.collection_created = TRUE], value |-> TRUE]

\* what the server and the embedding model do during one build_vector_index:
\* nothing wrong, or the call that fails
VectorEnv ==
    {"ok", "has_raises", "drop_raises", "create_raises", "embed_raises",
     "insert_raises", "index_fails", "load_raises"}

\* create_collection: an existing collection is dropped when force_recreate
\* is set and kept otherwise; any exception is logged and answered False
create_collection(m, force_recreate, env) ==
    IF env = "has_raises" THEN [m |-> m, value |-> FALSE, dropped |-> FALSE]
    ELSE IF m.collection # "absent" /\ ~force_recreate
    THEN [m |-> [m EXCEPT !.collection_created = TRUE], value |-> TRUE,
          dropped |-> FALSE]
    ELSE IF m.collection # "absent" /\ env = "drop_raises"
    THEN [m |-> m, value |-> FALSE, dropped |-> FALSE]
    ELSE IF env = "create_raises"
    THEN [m |-> [m EXCEPT !.collection = "absent"], value |-> FALSE,
          dropped |-> m.collection # "absent"]
    ELSE [m |-> [collection |-> "created", collection_created |-> TRUE],
          value |-> TRUE, dropped |-> m.collection # "absent"]

\* build_vector_index from its step 1 on (line 108): the collection is
\* created anew, the vectors are embedded and inserted, the index is created
\* and the collection is loaded
build_from_create(m, env) ==
    LET c == create_collection(m, TRUE, env)
        out(collection, value, exc) ==
            [m |-> [c.m EXCEPT !.collection = collection], value |-> value,
             exc |-> exc, dropped |-> c.dropped]
    IN IF ~c.value THEN [m |-> c.m, value |-> "False", exc |-> "none",
                         dropped |-> c.dropped]
       ELSE IF env = "embed_raises" THEN out("created", "none", "RuntimeError")
       ELSE IF env = "insert_raises" THEN out("created", "none", "MilvusException")
       ELSE IF env = "index_fails" THEN out("filled", "False", "none")
       ELSE IF env = "load_raises" THEN out("indexed", "none", "MilvusException")
       ELSE out("indexed", "True", "none")

\* build_vector_index that creates the collection before it looks at chunks
build_vector_index_create_first(m, chunks, env) ==
    LET b == build_from_create(m, env)
        c == create_collection(m, TRUE, env)
    IN IF c.value /\ chunks = "empty"
       THEN [m |-> c.m, value |-> "none", exc |-> "ValueError",
             dropped |-> c.dropped]
       ELSE b

\* build_vector_index(chunks): an empty list is rejected at lines 105-106
build_vector_index(m, chunks, env) ==
    IF chunks = "empty"
    THEN [m |-> m, value |-> "none", exc |-> "ValueError", dropped |-> FALSE]
    ELSE build_from_create(m, env)

----------------------------------------------------------------------------
(* The system: AdvanceGraphRAGSystem (src/main.py)                          *)

\* GraphDataModule.__init__: nothing loaded yet
NewDataModule ==
    [recipes |-> <<>>, ingredients |-> <<>>, cooking_steps |-> <<>>,
     chunks |-> "empty"]

\* the nodes load_graph_data makes of the rows of the graph: properties is
\* always a dict, the name is None when the node has none
GraphData ==
    [recipes : {<<>>, <<[node_id |-> <<"1">>, name |-> <<"x">>,
                         properties |-> SomeDict]>>},
     ingredients : {<<>>, <<[node_id |-> <<"2">>, name |-> None,
                             properties |-> SomeDict]>>},
     cooking_steps : {<<>>}]

NoData == [recipes |-> <<>>, ingredients |-> <<>>, cooking_steps |-> <<>>]

\* no build_vector_index
NoVectorBuild ==
    [chunks |-> "none", value |-> "none", exc |-> "none", dropped |-> FALSE]

\* the log of a build_vector_index call: its argument, what it returned or
\* raised, and whether it dropped the collection
VectorBuild(chunks, b) ==
    [chunks |-> chunks, value |-> b.value, exc |-> b.exc, dropped |-> b.dropped]

\* a build_knowledge_base that rebuilds whatever the two checks answered
NeverTakesLoadPath(has, loaded) == FALSE

\* build_knowledge_base takes the path of lines 94-105 when the collection
\* is there and was loaded
TakesLoadPath(has, loaded) == has /\ loaded

\* no initialize of the graph engine
NoEngineCall ==
    [connect |-> "not_called", entities |-> "empty", relations |-> "empty"]

\* the log of one operation on the system: the exception it raised, the
\* components whose collaborator was unreachable or missing while they were
\* initialized, whether it set system_status, what the graph index build of
\* the hybrid retriever did in it, and what the graph database did during
\* the initialize of the graph engine in it
NoRun ==
    [op |-> "none", exc |-> "none", failed |-> {}, marked |-> FALSE,
     built |-> FALSE, reached |-> "none", build_exc |-> "none",
     queried |-> FALSE, rows |-> <<>>, relationships |-> <<>>,
     args |-> <<>>, value |-> <<>>, engine |-> NoEngineCall, calls |-> <<>>,
     loaded |-> FALSE, vector |-> NoVectorBuild]

\* what the environment does during init_system
InitEnv ==
    [neo4j : {"up", "down"}, milvus : {"up", "down"},
     embeddings : {"ok", "raises"}, api_key : {"set", "missing"}]

\* init_system: the modules are constructed in order; the first exception is
\* logged and raised again
init_system(env) ==
    IF env.neo4j = "down"
    THEN [modules |-> {}, exc |-> "ServiceUnavailable", failed |-> {"data_module"}]
    ELSE IF env.milvus = "down"
    THEN [modules |-> {"data_module"}, exc |-> "MilvusException",
          failed |-> {"index_module"}]
    ELSE IF env.embeddings = "raises"
    THEN [modules |-> {"data_module"}, exc |-> "OSError", failed |-> {}]
    ELSE IF env.api_key = "missing"
    THEN [modules |-> {"data_module", "index_module"}, exc |-> "ValueError",
          failed |-> {"llm_module"}]
    ELSE [modules |-> {"data_module", "index_module", "llm_module",
                       "traditional_retrieval", "graph_retrieval", "query_router"},
          exc |-> "none", failed |-> {}]

\* what the environment does during build_knowledge_base: has_collection and
\* load_collection, load_graph_data and the graph it reads, chunk_documents
\* (whose test at line 305 reads the module-level name documents, not
\* self.documents), build_vector_index, and the two initialize calls.  What
\* is never reached is fixed, so that every run is drawn once.
BuildEnv(m) ==
    {e \in [has : {"answers", "raises"},
            loadc : {"ok", "raises"},
            load : {"ok", "raises"},
            graph : GraphData,
            chunking : {"some", "empty", "raises"},
            vector : VectorEnv \cup {"unused"},
            hybrid : HybridEnv,
            engine : GraphEnv] :
        LET loaded == TakesLoadPath(has_collection(m, e.has),
                                    load_collection(m, e.has, e.loadc).value)
            untilLoad == e.load = "raises"
            untilChunks == untilLoad \/ e.chunking = "raises"
            untilVector ==
                \/ untilChunks
                \/ (e.vector # "unused"
                    /\ build_vector_index(m, e.chunking, e.vector).exc # "none")
            untilHybrid == untilVector \/ e.hybrid.driver = "raises"
        IN /\ m.collection = "absent" => e.has = "answers"
           /\ ~has_collection(m, e.has) => e.loadc = "ok"
           /\ untilLoad => (e.graph = NoData /\ e.chunking = "empty")
           /\ e.chunking = "some" => e.graph.recipes # <<>>
           /\ (untilChunks \/ loaded) <=> e.vector = "unused"
           /\ (e.vector # "unused" /\ e.chunking = "empty") => e.vector = "ok"
           /\ (e.vector = "drop_raises") => m.collection # "absent"
           /\ untilVector => e.hybrid.driver = "returns"
           /\ (untilVector \/ e.hybrid.driver = "raises") =>
                 (e.hybrid.edges = <<>> /\ e.hybrid.read = 0)
           /\ untilHybrid => e.engine.connect = "driver_raises"}

\* the system, as one value
CurrentSystem ==
    [data_module |-> data_module,
     traditional_retrieval |-> traditional_retrieval,
     ix |-> IndexOf(entity_kv_store, key_to_entities, relation_kv_store,
                    key_to_relations),
     graph_retrieval |-> graph_retrieval,
     query_router |-> query_router,
     index_module |-> index_module,
     system_status |-> system_status,
     system_ready |-> system_ready]

\* the calls of build_knowledge_base on its two paths, in their order
LoadPathCalls ==
    <<"load_graph_data", "build_recipe_documents", "chunk_documents",
      "traditional_retrieval.initialize", "graph_retrieval.initialize">>
RebuildPathCalls ==
    <<"load_graph_data", "build_recipe_documents", "chunk_documents",
      "build_vector_index", "traditional_retrieval.initialize",
      "graph_retrieval.initialize", "get_route_statistics">>

\* the calls made up to the one that raised
RECURSIVE CallsUntil(_, _)
CallsUntil(calls, name) ==
    IF calls = <<>> THEN <<>>
    ELSE IF Head(calls) = name THEN <<name>>
    ELSE <<Head(calls)>> \o CallsUntil(Tail(calls), name)

\* build_knowledge_base with _init_retrievers (the collection was loaded) or
\* with build_vector_index, _initialize_retrievers and
\* _show_knowledge_base_stats (it was not)
build_knowledge_base(sys, cfg, env, llm) ==
    LET has == has_collection(sys.index_module, env.has)
        ld == IF has THEN load_collection(sys.index_module, env.has, env.loadc)
              ELSE [m |-> sys.index_module, value |-> FALSE]
        onLoadPath == TakesLoadPath(has, ld.value)
        path == IF onLoadPath THEN LoadPathCalls ELSE RebuildPathCalls
        checks == <<"has_collection">>
                  \o (IF has THEN <<"load_collection">> ELSE <<>>)
        run == [NoRun EXCEPT !.op = "build_knowledge_base",
                             !.loaded = ld.value]
        raised(name, exc) ==
            [run EXCEPT !.exc = exc, !.calls = checks \o CallsUntil(path, name)]
        checked == [sys EXCEPT !.index_module = ld.m]
        loaded == [checked EXCEPT
                      !.data_module.recipes = env.graph.recipes,
                      !.data_module.ingredients = env.graph.ingredients,
                      !.data_module.cooking_steps = env.graph.cooking_steps]
        chunked == [loaded EXCEPT !.data_module.chunks = env.chunking]
        vb == build_vector_index(ld.m, env.chunking, env.vector)
        vlog == IF onLoadPath THEN NoVectorBuild
                ELSE VectorBuild(env.chunking, vb)
        vectored == IF onLoadPath THEN chunked
                    ELSE [chunked EXCEPT !.index_module = vb.m]
        hy == hybrid_initialize(sys.traditional_retrieval, cfg, sys.ix, env.graph,
                                env.chunking, env.hybrid, llm)
        hyrun == [run EXCEPT !.built = hy.built, !.reached = hy.reached,
                             !.build_exc = hy.build_exc, !.queried = hy.queried,
                             !.rows = hy.rows,
                             !.relationships = hy.relationships,
                             !.failed = IF env.engine.connect = "ok" THEN {}
                                        ELSE {"graph_retrieval"},
                             !.engine = env.engine,
                             !.vector = vlog,
                             !.calls = checks \o path]
        initialized == [vectored EXCEPT
                           !.traditional_retrieval = hy.h,
                           !.ix = hy.ix,
                           !.graph_retrieval = graph_initialize(@, env.engine)]
        stats == get_route_statistics(sys.query_router.router_status)
    IN IF env.load = "raises"
       THEN [sys |-> checked, run |-> raised("load_graph_data", "ServiceUnavailable")]
       ELSE IF env.chunking = "raises"
       THEN [sys |-> loaded, run |-> raised("chunk_documents", "ValueError")]
       ELSE IF ~onLoadPath /\ vb.exc # "none"
       THEN [sys |-> vectored,
             run |-> [raised("build_vector_index", vb.exc) EXCEPT
                         !.vector = vlog]]
       ELSE IF hy.exc # "none"
       THEN [sys |-> vectored,
             run |-> [raised("traditional_retrieval.initialize", hy.exc) EXCEPT
                         !.failed = {"traditional_retrieval"}, !.vector = vlog]]
       ELSE IF onLoadPath
       THEN [sys |-> [initialized EXCEPT !.system_status = TRUE],
             run |-> [hyrun EXCEPT !.marked = TRUE]]
       ELSE [sys |-> [initialized EXCEPT !.system_ready = TRUE],
             run |-> [hyrun EXCEPT !.exc = stats.exc, !.value = stats.value]]

\* the system after an operation, while the key indexes stay within their bound
ApplySystem(r) ==
    /\ IndexEntries(r.sys.ix.k2e) <= MaxIndexEntries
    /\ IndexEntries(r.sys.ix.k2r) <= MaxIndexEntries
    /\ data_module' = r.sys.data_module
    /\ traditional_retrieval' = r.sys.traditional_retrieval
    /\ entity_kv_store' = r.sys.ix.estore
    /\ key_to_entities' = r.sys.ix.k2e
    /\ relation_kv_store' = r.sys.ix.rstore
    /\ key_to_relations' = r.sys.ix.k2r
    /\ graph_retrieval' = r.sys.graph_retrieval
    /\ query_router' = r.sys.query_router
    /\ system_status' = r.sys.system_status
    /\ index_module' = r.sys.index_module
    /\ system_ready' = r.sys.system_ready
    /\ lastRun' = r.run

\* init_system, on a system it has not yet initialized in full
InitSystem ==
    /\ "query_router" \notin modules
    /\ \E env \in InitEnv :
         LET r == init_system(env)
             fresh(name, new, old) == IF name \in r.modules THEN new ELSE old
             emptyIndex == IndexOf(<<>>, <<>>, <<>>, <<>>)
         IN /\ modules' = modules \cup r.modules
            /\ ApplySystem(
                 [sys |-> [CurrentSystem EXCEPT
                      !.data_module = fresh("data_module", NewDataModule, @),
                      !.index_module =
                          fresh("index_module", NewIndexModule(@.collection), @),
                      !.traditional_retrieval =
                          fresh("traditional_retrieval", NewHybridRetrieval, @),
                      !.ix = fresh("traditional_retrieval", emptyIndex, @),
                      !.graph_retrieval =
                          fresh("graph_retrieval", NewGraphRetrieval, @),
                      !.query_router = fresh("query_router", NewQueryRouter, @)],
                  run |-> [NoRun EXCEPT !.op = "init_system", !.exc = r.exc,
                                        !.failed = r.failed]])
    /\ UNCHANGED <<config, lastCall, llmVars, threads>>

\* build_knowledge_base, called as the main program calls it: once, after
\* init_system has returned
BuildKnowledgeBase ==
    /\ "query_router" \in modules
    /\ lastRun.op = "init_system"
    /\ \E env \in BuildEnv(index_module) :
       \E llm \in HybridLlmChoices(config, CurrentSystem.ix, env.graph, env.hybrid) :
         ApplySystem(build_knowledge_base(CurrentSystem, config, env, llm))
    /\ UNCHANGED <<modules, config, lastCall, llmVars, threads>>

\* the operations of the three modules below write disjoint parts of the
\* system, so the calls on one module are followed on their own, after the
\* operations of the system: the last operation was one of ops
Follows(ops) == lastRun.op \in {"init_system", "build_knowledge_base"} \cup ops

\* initialize of the hybrid retriever, called again with the chunks of the
\* data module
HybridInitialize ==
    /\ "query_router" \in modules
    /\ Follows({"initialize"})
    /\ \E env \in HybridEnv :
       \E llm \in HybridLlmChoices(config, CurrentSystem.ix, data_module, env) :
         LET hy == hybrid_initialize(traditional_retrieval, config, CurrentSystem.ix,
                                     data_module, data_module.chunks, env, llm)
         IN ApplySystem(
              [sys |-> [CurrentSystem EXCEPT !.traditional_retrieval = hy.h,
                                             !.ix = hy.ix],
               run |-> [NoRun EXCEPT
                          !.op = "initialize", !.exc = hy.exc,
                          !.failed = IF hy.exc = "none" THEN {}
                                     ELSE {"traditional_retrieval"},
                          !.built = hy.built, !.reached = hy.reached,
                          !.build_exc = hy.build_exc, !.queried = hy.queried,
                          !.rows = hy.rows,
                          !.relationships = hy.relationships]])
    /\ UNCHANGED <<modules, config, lastCall, llmVars, threads>>

\* initialize of the graph engine, called again
GraphInitialize ==
    /\ "query_router" \in modules
    /\ Follows({"graph_initialize"})
    /\ \E env \in GraphEnv :
         /\ graph_retrieval' = graph_initialize(graph_retrieval, env)
         /\ lastRun' = [NoRun EXCEPT
                          !.op = "graph_initialize",
                          !.failed = IF env.connect = "ok" THEN {}
                                     ELSE {"graph_retrieval"},
                          !.engine = env]
    /\ UNCHANGED <<indexVars, modules, data_module, index_module,
                   traditional_retrieval, query_router, system_status,
                   system_ready, llmVars, threads>>

\* build_vector_index of the index module, called with the chunks of the
\* data module or with an empty list
BuildVectorIndex ==
    /\ "query_router" \in modules
    /\ Follows({"build_vector_index"})
    /\ \E chunks \in {"empty", data_module.chunks} :
       \E env \in VectorEnv :
         LET b == build_vector_index(index_module, chunks, env)
         IN /\ chunks = "empty" => env = "ok"
            /\ env = "drop_raises" => index_module.collection # "absent"
            /\ index_module' = b.m
            /\ lastRun' = [NoRun EXCEPT !.op = "build_vector_index",
                                        !.exc = b.exc,
                                        !.vector = VectorBuild(chunks, b)]
    /\ UNCHANGED <<indexVars, modules, data_module, traditional_retrieval,
                   graph_retrieval, query_router, system_status, system_ready,
                   llmVars, threads>>

\* LLMConfig.top_k (its default) and GraphRAGConfig.max_graph_depth
top_k == 3
max_graph_depth == 2

\* what the keyword index, the vector search and the graph expansion hold
\* for a query: three ranked lists of passages
Candidates ==
    [keyword : {<<"a", "b", "c">>, <<>>},
     vector : {<<"d">>, <<"a">>},
     graph : {<<>>, <<"b", "e">>}]

\* traditional_retrieval.retrieve(query, k), as a caller of the hybrid
\* retriever makes the call
Retrieve ==
    /\ "query_router" \in modules
    /\ Follows({"retrieve"})
    /\ \E k \in {1, top_k} : \E c \in Candidates :
         lastRun' = [NoRun EXCEPT
                       !.op = "retrieve",
                       !.exc = AttributeLookup(HybridRetrievalModuleMethods,
                                               "retrieve"),
                       !.args = [top_k |-> k, keyword |-> c.keyword,
                                 vector |-> c.vector, graph |-> c.graph]]
    /\ UNCHANGED <<indexVars, modules, data_module, index_module,
                   traditional_retrieval, graph_retrieval, query_router,
                   system_status, system_ready, llmVars, threads>>

\* the graphs a traversal is run on: a chain from A to Z of three hops,
\* with and without an edge back to A
TraversalGraphs ==
    {{<<"A", "B">>, <<"B", "C">>, <<"C", "Z">>},
     {<<"A", "B">>, <<"B", "C">>, <<"C", "Z">>, <<"C", "A">>}}

\* graph_retrieval.traverse(seed, max_depth), as a caller of the graph
\* engine makes the call
Traverse ==
    /\ "query_router" \in modules
    /\ Follows({"traverse"})
    /\ \E d \in {1, max_graph_depth} : \E edges \in TraversalGraphs :
         lastRun' = [NoRun EXCEPT
                       !.op = "traverse",
                       !.exc = AttributeLookup(GraphRAGRetrievalModuleMethods,
                                               "traverse"),
                       !.args = [seed |-> "A", max_depth |-> d, edges |-> edges]]
    /\ UNCHANGED <<indexVars, modules, data_module, index_module,
                   traditional_retrieval, graph_retrieval, query_router,
                   system_status, system_ready, llmVars, threads>>

\* get_route_statistics of the router
GetRouteStatistics ==
    /\ "query_router" \in modules
    /\ LET r == get_route_statistics(query_router.router_status)
       IN lastRun' = [NoRun EXCEPT !.op = "get_route_statistics",
                                   !.exc = r.exc, !.value = r.value]
    /\ UNCHANGED <<indexVars, modules, data_module, index_module,
                   traditional_retrieval, graph_retrieval, query_router,
                   system_status, system_ready, llmVars, threads>>

NextSystem ==
    \/ InitSystem
    \/ BuildKnowledgeBase
    \/ HybridInitialize
    \/ GraphInitialize
    \/ BuildVectorIndex
    \/ Retrieve
    \/ Traverse
    \/ GetRouteStatistics

----------------------------------------------------------------------------
(* The LLM module: LLMModule (src/modules/graph_llm_module.py)              *)

\* the largest max_retries a caller passes
MaxRetries == 3
\* the chunks of one streamed response
MaxChunks == 2

\* the default of the parameter max_retries
DefaultMaxRetries == 3
\* the unit of the wait between attempts, in seconds
BackoffUnit == 2

\* the documents of a call: every page_content is a str, or one is None
Documents == {"well_formed", "malformed"}

\* what the non-streaming completion call does: it returns an answer, it
\* returns a message without content, or it raises
CompletionOutcomes == {"answer", "content_None", "APIConnectionError"}

\* the exception of an outcome of the completion call inside the try
CompletionException(llm) ==
    IF llm = "content_None" THEN "AttributeError" ELSE llm

\* the text of the i-th fragment of the answer the LLM streams
Fragment(i) == Decimal(i)
AnswerText == <<"answer">>
\* the two messages of lines 77 and 161, each closed by str(e)
ApologyText(exc) == <<"baoqian, shengcheng huida shi chuxian cuowu: ", exc>>
ErrorMessage(exc) ==
    <<"baoqian, shengcheng huida shi chuxian wangluo cuowu, qing shaohou chongshi. cuowu xinxi: ",
      exc>>

\* a clause that names a narrower class than the source's
CatchesConnectionErrors(exc) == exc = "APIConnectionError"

\* except Exception of generate_adaptive_answer (line 75)
AnswerCatches(exc) == exc # "GeneratorExit"

\* generate_adaptive_answer(question, documents): the context is built
\* before the try, the completion call is made inside it
generate_adaptive_answer(docs, llm) ==
    IF docs = "malformed"
    THEN [kind |-> "raised", text |-> <<>>, exc |-> "AttributeError"]
    ELSE IF llm = "answer"
    THEN [kind |-> "answer", text |-> AnswerText, exc |-> "none"]
    ELSE IF AnswerCatches(CompletionException(llm))
    THEN [kind |-> "apology", text |-> ApologyText(CompletionException(llm)),
          exc |-> "none"]
    ELSE [kind |-> "raised", text |-> <<>>, exc |-> CompletionException(llm)]

\* a clause that catches every exception, GeneratorExit included
CatchesBaseException(exc) == TRUE

\* except Exception of generate_adaptive_answer_stream (lines 142 and 159):
\* GeneratorExit is not an Exception
StreamCatches(exc) == exc # "GeneratorExit"

\* a test that never takes the fallback branch
RetryAlways(attempt, max_retries) == FALSE

\* the else branch of line 145: the failed attempt was the last one
IsLastAttempt(attempt, max_retries) == ~(attempt < max_retries - 1)

\* a wait that counts the attempts from zero
WaitTimeFromZero(attempt) == attempt * BackoffUnit

\* wait_time of line 146
WaitTime(attempt) == (attempt + 1) * BackoffUnit

\* no generator
NoStream ==
    [pc |-> "none", max_retries |-> 0, docs |-> "well_formed", attempt |-> 0,
     pos |-> 0, current |-> <<>>, events |-> <<>>, received |-> <<>>,
     cancelled |-> FALSE, consumer_exc |-> "none"]

\* the generator yields text: the consumer receives it, unless the consumer
\* has closed the generator, whose close then raises RuntimeError
Yield(s, text, pc) ==
    IF s.cancelled
    THEN [s EXCEPT !.pc = "closed", !.consumer_exc = "RuntimeError"]
    ELSE [s EXCEPT !.pc = pc, !.received = Append(@, text)]

\* an exception leaves the generator: GeneratorExit ends the close, any
\* other reaches the consumer
Propagate(s, exc) ==
    IF exc = "GeneratorExit" THEN [s EXCEPT !.pc = "closed"]
    ELSE [s EXCEPT !.pc = "raised", !.consumer_exc = exc]

\* lines 155-163, after the streaming exception exc: the fallback call and
\* the yield of its answer, or of the error message (which ends with str(e)
\* of the streaming exception) when the call raised
Fallback(s, exc, llm) ==
    LET a == generate_adaptive_answer(s.docs, llm)
        called == [s EXCEPT !.events = Append(@, <<"fallback", a.kind>>)]
    IN IF a.kind # "raised" THEN Yield(called, a.text, "yielded_fallback")
       ELSE IF StreamCatches(a.exc)
       THEN Yield(called, ErrorMessage(exc), "yielded_error")
       ELSE Propagate(called, a.exc)

\* lines 142-163: exc was raised inside the try of the attempt
OnException(s, exc, llm) ==
    IF ~StreamCatches(exc) THEN Propagate(s, exc)
    ELSE LET failed == [s EXCEPT !.events = Append(@, <<"failed", s.attempt + 1>>)]
         IN IF ~IsLastAttempt(s.attempt, s.max_retries)
            THEN [failed EXCEPT
                    !.events = Append(@, <<"sleep", WaitTime(s.attempt)>>),
                    !.attempt = @ + 1,
                    !.pc = "attempt"]
            ELSE Fallback(failed, exc, llm)

\* the outcome of no generate_adaptive_answer call
NoAnswer ==
    [docs |-> "well_formed", llm |-> "none", kind |-> "none", text |-> <<>>,
     exc |-> "none"]

\* the text a yield or a return handed over is an apology
IsApology(text) ==
    \E exc \in {"APIConnectionError", "AttributeError", "GeneratorExit"} :
        text \in {ApologyText(exc), ErrorMessage(exc)}

\* a caller calls generate_adaptive_answer_stream: the generator is made,
\* none of its body has run
NewGenerator ==
    /\ stream.pc = "none"
    /\ \E n \in 0..MaxRetries, docs \in Documents :
         stream' = [NoStream EXCEPT !.pc = "created", !.max_retries = n,
                                    !.docs = docs]
    /\ UNCHANGED <<indexVars, systemVars, threads, answer>>

\* the first next(): lines 83-112 build the context and the prompt
StartGenerator ==
    /\ stream.pc = "created"
    /\ stream' = IF stream.docs = "malformed"
                 THEN Propagate(stream, "AttributeError")
                 ELSE [stream EXCEPT !.pc = "attempt"]
    /\ UNCHANGED <<indexVars, systemVars, threads, answer>>

\* line 114: range(max_retries) is exhausted and the function returns
LoopEnds ==
    /\ stream.pc = "attempt"
    /\ stream.attempt >= stream.max_retries
    /\ stream' = [stream EXCEPT !.pc = "done"]
    /\ UNCHANGED <<indexVars, systemVars, threads, answer>>

\* lines 114-125: the next attempt starts; the streaming call returns a
\* response or raises
CreateStream ==
    /\ stream.pc = "attempt"
    /\ stream.attempt < stream.max_retries
    /\ LET started == [stream EXCEPT
                          !.events = Append(@, <<"attempt", stream.attempt + 1>>),
                          !.pos = 0,
                          !.current = <<>>]
       IN \/ stream' = [started EXCEPT !.pc = "iterating"]
          \/ \E llm \in CompletionOutcomes :
               stream' = OnException(started, "APIConnectionError", llm)
    /\ UNCHANGED <<indexVars, systemVars, threads, answer>>

\* lines 133-137: the response hands over a chunk with content, which is yielded
ChunkWithContent ==
    /\ stream.pc = "iterating"
    /\ stream.pos < MaxChunks
    /\ LET text == Fragment(Len(stream.current) + 1)
       IN stream' = Yield([stream EXCEPT !.pos = @ + 1,
                                         !.current = Append(@, text)],
                          text, "yielded")
    /\ UNCHANGED <<indexVars, systemVars, threads, answer>>

\* lines 133-134: the response hands over a chunk without content
ChunkWithoutContent ==
    /\ stream.pc = "iterating"
    /\ stream.pos < MaxChunks
    /\ stream' = [stream EXCEPT !.pos = @ + 1]
    /\ UNCHANGED <<indexVars, systemVars, threads, answer>>

\* lines 133 and 140: the response is exhausted and the function returns
StreamEnds ==
    /\ stream.pc = "iterating"
    /\ stream' = [stream EXCEPT
                     !.events = Append(@, <<"completed", stream.attempt + 1>>),
                     !.pc = "done"]
    /\ UNCHANGED <<indexVars, systemVars, threads, answer>>

\* line 133: reading the response raises
StreamRaises ==
    /\ stream.pc = "iterating"
    /\ \E llm \in CompletionOutcomes :
         stream' = OnException(stream, "APIConnectionError", llm)
    /\ UNCHANGED <<indexVars, systemVars, threads, answer>>

\* the consumer asks for the next fragment: after a fragment of an attempt
\* the loop of line 133 goes on, after the fallback's text the function
\* returns (lines 158 and 163)
Resume ==
    /\ stream.pc \in {"yielded", "yielded_fallback", "yielded_error"}
    /\ stream' = [stream EXCEPT
                     !.pc = IF stream.pc = "yielded" THEN "iterating" ELSE "done"]
    /\ UNCHANGED <<indexVars, systemVars, threads, answer>>

\* the consumer stops: close() raises GeneratorExit at the yield where the
\* generator is suspended, inside the try of the attempt (line 137), inside
\* the try of the fallback (line 157), or inside no try (line 162, and a
\* generator that has not started)
Cancel ==
    /\ stream.pc \in {"created", "yielded", "yielded_fallback", "yielded_error"}
    /\ LET closing == [stream EXCEPT !.cancelled = TRUE]
       IN \E llm \in CompletionOutcomes :
            stream' =
              IF stream.pc = "yielded"
              THEN OnException(closing, "GeneratorExit", llm)
              ELSE IF stream.pc = "yielded_fallback" /\ StreamCatches("GeneratorExit")
              THEN Yield(closing, ErrorMessage("APIConnectionError"), "yielded_error")
              ELSE Propagate(closing, "GeneratorExit")
    /\ UNCHANGED <<indexVars, systemVars, threads, answer>>

\* the consumer drops a generator that has ended
DropGenerator ==
    /\ stream.pc \in {"done", "raised", "closed"}
    /\ stream' = NoStream
    /\ UNCHANGED <<indexVars, systemVars, threads, answer>>

\* a caller calls generate_adaptive_answer
GenerateAnswer ==
    /\ \E docs \in Documents, llm \in CompletionOutcomes :
         answer' = [docs |-> docs, llm |-> llm] @@ generate_adaptive_answer(docs, llm)
    /\ UNCHANGED <<indexVars, systemVars, threads, stream>>

NextLLM ==
    \/ NewGenerator
    \/ StartGenerator
    \/ LoopEnds
    \/ CreateStream
    \/ ChunkWithContent
    \/ ChunkWithoutContent
    \/ StreamEnds
    \/ StreamRaises
    \/ Resume
    \/ Cancel
    \/ DropGenerator
    \/ GenerateAnswer

----------------------------------------------------------------------------
(* Two threads on the shared index and caches: one runs the loops that     *)
(* write them, statement by statement, the other reads them.  Neither      *)
(* class holds a lock, so the reader runs between any two statements of    *)
(* the writer.                                                              *)

\* the recipe nodes the writer indexes: those create_entity_key_values stores
WriterNodes == {n \in GraphNode : n.properties.kind # "None"}

\* a cache after one more record is assigned into it
OneMore(cache) == IF cache = "empty" THEN "partial" ELSE "full"

\* line 94: self.entity_kv_store[entity_id] = entity_kv
StoreEntity ==
    /\ threads.pc = "idle"
    /\ IndexEntries(key_to_entities) < MaxIndexEntries
    /\ \E node \in WriterNodes :
         /\ entity_kv_store' = DictSet(entity_kv_store, node.node_id,
                                       NewEntityKeyValue(node, "Recipe"))
         /\ threads' = [threads EXCEPT !.pc = "line 95", !.pending = <<node>>]
    /\ UNCHANGED <<config, relation_kv_store, key_to_entities, key_to_relations,
                   lastCall, systemVars, llmVars>>

\* line 95: self.key_to_entities[entity_name].append(entity_id)
AppendEntityKey ==
    /\ threads.pc = "line 95"
    /\ LET node == threads.pending[1]
       IN key_to_entities' = ListAppend(key_to_entities,
                                        EntityName(node, "Recipe"), node.node_id)
    /\ threads' = [threads EXCEPT !.pc = "idle", !.pending = <<>>]
    /\ UNCHANGED <<config, entity_kv_store, relation_kv_store, key_to_relations,
                   lastCall, systemVars, llmVars>>

\* lines 65-73: one record of the entity query is assigned into entity_cache
CacheEntity ==
    /\ graph_retrieval.entity_cache # "full"
    /\ graph_retrieval' = [graph_retrieval EXCEPT
                              !.driver = "set", !.entity_cache = OneMore(@)]
    /\ UNCHANGED <<indexVars, modules, data_module, index_module,
                   traditional_retrieval, query_router, system_status,
                   system_ready, lastRun, llmVars, threads>>

\* lines 82-85: one record of the relation query is assigned into
\* relation_cache, after the entity query has been read
CacheRelation ==
    /\ graph_retrieval.entity_cache = "full"
    /\ graph_retrieval.relation_cache # "full"
    /\ graph_retrieval' = [graph_retrieval EXCEPT !.relation_cache = OneMore(@)]
    /\ UNCHANGED <<indexVars, modules, data_module, index_module,
                   traditional_retrieval, query_router, system_status,
                   system_ready, lastRun, llmVars, threads>>

\* the other thread reads the entity store and its key index
ReadIndex ==
    /\ threads' = [threads EXCEPT
                      !.observed = [kind |-> "index",
                                    store |-> entity_kv_store,
                                    k2e |-> key_to_entities]]
    /\ UNCHANGED <<indexVars, systemVars, llmVars>>

\* the other thread reads the two caches of the graph engine
ReadCaches ==
    /\ threads' = [threads EXCEPT
                      !.observed = [kind |-> "caches",
                                    entity_cache |-> graph_retrieval.entity_cache,
                                    relation_cache |-> graph_retrieval.relation_cache]]
    /\ UNCHANGED <<indexVars, systemVars, llmVars>>

NextThreads ==
    \/ StoreEntity
    \/ AppendEntityKey
    \/ CacheEntity
    \/ CacheRelation
    \/ ReadIndex
    \/ ReadCaches

----------------------------------------------------------------------------
(* The specifications *)

\* GraphIndexingModule.__init__ with either config; no system, no generator
InitIndex ==
    /\ config \in {"without_flag", "with_flag"}
    /\ entity_kv_store = <<>>
    /\ relation_kv_store = <<>>
    /\ key_to_entities = <<>>
    /\ key_to_relations = <<>>
    /\ lastCall = NoCall
    /\ modules = {}
    /\ data_module = NewDataModule
    /\ index_module = NewIndexModule("absent")
    /\ traditional_retrieval = NewHybridRetrieval
    /\ graph_retrieval = NewGraphRetrieval
    /\ query_router = NewQueryRouter
    /\ system_status = FALSE
    /\ system_ready = FALSE
    /\ lastRun = NoRun
    /\ stream = NoStream
    /\ answer = NoAnswer
    /\ threads = NoThreads

\* one GraphIndexingModule and its callers
SpecIndex == InitIndex /\ [][NextIndex]_vars

\* LLMModule.__init__; no generator yet, no call made
InitLLM ==
    /\ config = "without_flag"
    /\ entity_kv_store = <<>>
    /\ relation_kv_store = <<>>
    /\ key_to_entities = <<>>
    /\ key_to_relations = <<>>
    /\ lastCall = NoCall
    /\ modules = {}
    /\ data_module = NewDataModule
    /\ index_module = NewIndexModule("absent")
    /\ traditional_retrieval = NewHybridRetrieval
    /\ graph_retrieval = NewGraphRetrieval
    /\ query_router = NewQueryRouter
    /\ system_status = FALSE
    /\ system_ready = FALSE
    /\ lastRun = NoRun
    /\ stream = NoStream
    /\ answer = NoAnswer
    /\ threads = NoThreads

\* one LLMModule, its callers and the consumer of its stream
SpecLLM == InitLLM /\ [][NextLLM]_vars

\* the index and the engine as constructed, no thread started
InitThreads ==
    /\ config = "without_flag"
    /\ entity_kv_store = <<>>
    /\ relation_kv_store = <<>>
    /\ key_to_entities = <<>>
    /\ key_to_relations = <<>>
    /\ lastCall = NoCall
    /\ modules = {}
    /\ data_module = NewDataModule
    /\ index_module = NewIndexModule("absent")
    /\ traditional_retrieval = NewHybridRetrieval
    /\ graph_retrieval = NewGraphRetrieval
    /\ query_router = NewQueryRouter
    /\ system_status = FALSE
    /\ system_ready = FALSE
    /\ lastRun = NoRun
    /\ stream = NoStream
    /\ answer = NoAnswer
    /\ threads = NoThreads

\* the two threads on one index and one engine
SpecThreads == InitThreads /\ [][NextThreads]_vars

\* AdvanceGraphRAGSystem.__init__, with either config
InitAdvanceGraphRAGSystem ==
    /\ config \in {"without_flag", "with_flag"}
    /\ entity_kv_store = <<>>
    /\ relation_kv_store = <<>>
    /\ key_to_entities = <<>>
    /\ key_to_relations = <<>>
    /\ lastCall = NoCall
    /\ modules = {}
    /\ data_module = NewDataModule
    /\ index_module \in {NewIndexModule("absent"), NewIndexModule("existing")}
    /\ traditional_retrieval = NewHybridRetrieval
    /\ graph_retrieval = NewGraphRetrieval
    /\ query_router = NewQueryRouter
    /\ system_status = FALSE
    /\ system_ready = FALSE
    /\ lastRun = NoRun
    /\ stream = NoStream
    /\ answer = NoAnswer
    /\ threads = NoThreads

\* one AdvanceGraphRAGSystem
SpecSystem == InitAdvanceGraphRAGSystem /\ [][NextSystem]_vars

----------------------------------------------------------------------------
(* C11 *)

\* C11: the key-value index offers a deduplicate operation to the index
\* build of the hybrid retriever: a build that got past its two create calls
\* does not stop at the deduplicate call, and leaves no two entity records
\* of one (entity_type, entity_name).
C11_DeduplicateOffered ==
    (/\ lastRun.built
     /\ lastRun.reached \notin {"create_entity_key_values",
                                "create_relation_key_value"})
    => /\ lastRun.reached # "deduplicate_entities_and_relations"
       /\ \A a, b \in DOMAIN entity_kv_store :
            (/\ entity_kv_store[a].entity_type = entity_kv_store[b].entity_type
             /\ entity_kv_store[a].entity_name = entity_kv_store[b].entity_name)
            => a = b

----------------------------------------------------------------------------
(* C12 *)

\* C12: the graph index is built once: an initialize whose graph index build
\* has run leaves graph_indexed set, and the initialize that follows it
\* leaves the two stores and the two key indexes as they are and issues no
\* relation query.
C12_BuiltOnce ==
    /\ [](lastRun.built => traditional_retrieval.graph_indexed)
    /\ [][(lastRun.built /\ lastRun'.op = "initialize")
            => /\ ~lastRun'.queried
               /\ UNCHANGED <<entity_kv_store, relation_kv_store,
                              key_to_entities, key_to_relations>>]_vars

----------------------------------------------------------------------------
(* What a generator has done *)

\* the generator has logged the event kind of attempt k (for a sleep, of k seconds)
HasEvent(kind, k) ==
    \E i \in DOMAIN stream.events :
        stream.events[i][1] = kind /\ stream.events[i][2] = k

EventsOf(kind) == {i \in DOMAIN stream.events : stream.events[i][1] = kind}

\* the attempts started, the attempts failed, the calls of the fallback
Started == Cardinality(EventsOf("attempt"))
Failed == Cardinality(EventsOf("failed"))
FallbackCalls == Cardinality(EventsOf("fallback"))

\* the apologies among what the consumer received
Apologies == {i \in DOMAIN stream.received : IsApology(stream.received[i])}

----------------------------------------------------------------------------
(* C13 *)

\* C13: when attempts 1 and 2 failed and attempt 3 ran to its end, the
\* consumer has received the fragments of attempt 3 and nothing else: no
\* fragment of attempt 1 or 2, no apology, no exception.
C13_OnlyTheSuccessfulAttempt ==
    (/\ HasEvent("failed", DefaultMaxRetries - 2)
     /\ HasEvent("failed", DefaultMaxRetries - 1)
     /\ HasEvent("completed", DefaultMaxRetries))
    => /\ stream.received = stream.current
       /\ Apologies = {}
       /\ stream.consumer_exc = "none"

----------------------------------------------------------------------------
(* C14 *)

\* C14: when all 3 attempts of a generator with max_retries = 3 have failed,
\* the non-streaming generation has been called, once; its answer is the
\* last text the consumer received and no apology came with it; when it
\* failed too, the consumer received one apology, as the last text; the
\* generator ends after that text and no exception reaches the consumer.
C14_FallbackAfterThreeFailures ==
    (/\ stream.max_retries = DefaultMaxRetries
     /\ HasEvent("failed", DefaultMaxRetries))
    => /\ FallbackCalls = 1
       /\ stream.consumer_exc = "none"
       /\ stream.pc \in {"yielded_fallback", "yielded_error", "done", "closed"}
       /\ stream.received # <<>>
       /\ IF HasEvent("fallback", "answer")
          THEN /\ stream.received[Len(stream.received)] = AnswerText
               /\ Apologies = {}
          ELSE Apologies = {Len(stream.received)}

\* C14 witness: after fragments of a failed attempt, the third attempt
\* failed, the fallback failed too, and the generator has returned.
C14_Witness ==
    /\ stream.max_retries = DefaultMaxRetries
    /\ HasEvent("failed", DefaultMaxRetries)
    /\ HasEvent("fallback", "apology")
    /\ Len(stream.received) > 1
    /\ stream.pc = "done"

----------------------------------------------------------------------------
(* C15 *)

\* C15: a generator with max_retries = n starts at most n attempts and none
\* after an attempt ran to its end; it calls the fallback at most once, and
\* only when n attempts have failed; and when it has returned with all its n
\* attempts failed, it has called the fallback.
C15_AttemptsAndFallback ==
    /\ Started <= stream.max_retries
    /\ \A i \in EventsOf("completed") : \A j \in EventsOf("attempt") : j < i
    /\ FallbackCalls <= 1
    /\ FallbackCalls = 1 => Failed = stream.max_retries
    /\ (stream.pc = "done" /\ Failed = stream.max_retries) => FallbackCalls = 1

----------------------------------------------------------------------------
(* C16 *)

\* C16: the generator waits k * 2 seconds right after the k-th failed
\* attempt, for k = 1 .. max_retries - 1, and starts the next attempt right
\* after the wait; it waits at no other time, and right after the last
\* failed attempt it calls the fallback.
C16_LinearBackoff ==
    \A i \in DOMAIN stream.events :
        LET e == stream.events[i]
            next == stream.events[i + 1]
        IN /\ (e[1] = "failed" /\ e[2] < stream.max_retries) =>
                /\ i < Len(stream.events)
                /\ next[1] = "sleep"
                /\ next[2] = e[2] * BackoffUnit
           /\ (e[1] = "failed" /\ e[2] >= stream.max_retries) =>
                /\ i < Len(stream.events)
                /\ next[1] = "fallback"
           /\ e[1] = "sleep" =>
                /\ i > 1
                /\ stream.events[i - 1][1] = "failed"
                /\ i < Len(stream.events) => next[1] = "attempt"

\* C16 witness: a generator has waited 2 seconds after its first failed
\* attempt and 4 after its second, and has called the fallback after its
\* third.
C16_Witness ==
    /\ HasEvent("sleep", BackoffUnit)
    /\ HasEvent("sleep", 2 * BackoffUnit)
    /\ HasEvent("failed", DefaultMaxRetries)
    /\ FallbackCalls = 1

----------------------------------------------------------------------------
(* C17 *)

\* C17: when the consumer stops after a fragment, the generator is closed
\* without an exception for the consumer, and from the stop on it starts no
\* attempt, waits for no backoff and calls no fallback.
C17_Cancellable ==
    /\ [](stream.cancelled =>
            (stream.pc = "closed" /\ stream.consumer_exc = "none"))
    /\ [][stream'.cancelled => stream'.events = stream.events]_vars

\* C17 witness: the consumer stopped after the text of the fallback, having
\* received a fragment of a streaming attempt before it.
C17_Witness ==
    /\ stream.cancelled
    /\ FallbackCalls = 1
    /\ Len(stream.received) > 1

----------------------------------------------------------------------------
(* C18 *)

\* C18: a generate_adaptive_answer call whose LLM call failed has returned
\* an apology and raised nothing.
C18_AnswerNeverRaises ==
    (answer.docs = "well_formed" /\ answer.llm \notin {"none", "answer"})
    => /\ answer.kind = "apology"
       /\ answer.exc = "none"
       /\ IsApology(answer.text)

\* C18 witness: the LLM returned a message without content, whose strip()
\* raised inside the try, and the call returned an apology.
C18_Witness ==
    /\ answer.llm = "content_None"
    /\ answer.kind = "apology"

----------------------------------------------------------------------------
(* C19 *)

\* the exceptions of a missing API key and of an unreachable store
CollaboratorErrors == {"ValueError", "ServiceUnavailable", "MilvusException"}

\* C19: an operation of system initialization during which a component was
\* initialized with its collaborator missing or unreachable raises the
\* collaborator's error and does not mark the system ready.
C19_InitFailuresFatal ==
    lastRun.failed # {} =>
        /\ lastRun.exc \in CollaboratorErrors
        /\ ~lastRun.marked

----------------------------------------------------------------------------
(* C20 *)

\* C20: get_route_statistics on a router that has answered no query returns
\* normally, with the counters of the router at 0 and with traditional_ratio,
\* graph_ratio and combined_ratio present and 0.
C20_ZeroQueryStatistics ==
    lastRun.op = "get_route_statistics" =>
        /\ lastRun.exc = "none"
        /\ \A k \in DOMAIN query_router.router_status :
             k \in DOMAIN lastRun.value /\ lastRun.value[k] = 0
        /\ \A k \in {"traditional_ratio", "graph_ratio", "combined_ratio"} :
             k \in DOMAIN lastRun.value /\ lastRun.value[k] = 0

----------------------------------------------------------------------------
(* C21 *)

\* C21: the routing statistics are consistent: get_route_statistics reads
\* the counters under the names the router keeps them under, the total is
\* the sum of the three strategy counters, and no counter ever decreases.
C21_RoutingStatsConsistent ==
    /\ []("query_router" \in modules =>
            LET status == query_router.router_status
            IN /\ StatisticsKeys \subseteq DOMAIN status
               /\ status["total_queries"] =
                     status["traditional_count"] + status["graph_rag_count"]
                     + status["combined_count"])
    /\ [][\A k \in DOMAIN query_router.router_status :
            /\ k \in DOMAIN query_router'.router_status
            /\ query_router'.router_status[k] >= query_router.router_status[k]]_vars

----------------------------------------------------------------------------
(* C22 *)

\* an initialize of the graph engine passed the connection test and one of
\* its two bulk queries failed: before, between or in the middle of them
PopulationFailed ==
    lastRun.engine.connect = "ok" /\ lastRun.engine.relations # "full"

\* C22: when the cache population of an initialize of the graph engine
\* fails, the initialize returns without raising and the entity cache and
\* the relation-type cache are both empty afterwards.
C22_FailedPopulationLeavesCachesEmpty ==
    PopulationFailed =>
        /\ lastRun.op = "graph_initialize" => lastRun.exc = "none"
        /\ graph_retrieval.entity_cache = "empty"
        /\ graph_retrieval.relation_cache = "empty"

----------------------------------------------------------------------------
(* C23 *)

\* the state of the engine: UNINITIALIZED without a driver, INDEXED once
\* both caches are filled, CONNECTED in between
EngineState(g) ==
    IF g.driver = "None" THEN "UNINITIALIZED"
    ELSE IF g.entity_cache = "full" /\ g.relation_cache = "full" THEN "INDEXED"
    ELSE "CONNECTED"

\* C23: the engine is pre-warmed only after its connection test succeeded:
\* an initialize whose connection test fails on an UNINITIALIZED engine
\* leaves it UNINITIALIZED, with no driver and its three caches untouched;
\* and no initialize takes the engine back to an earlier state.
C23_EngineStateForward ==
    /\ []({graph_retrieval.entity_cache, graph_retrieval.relation_cache}
             # {"empty"} => graph_retrieval.driver # "None")
    /\ [][/\ (/\ lastRun'.engine.connect \in {"driver_raises", "session_raises"}
              /\ EngineState(graph_retrieval) = "UNINITIALIZED")
             => /\ EngineState(graph_retrieval') = "UNINITIALIZED"
                /\ graph_retrieval'.driver = "None"
                /\ graph_retrieval'.entity_cache = graph_retrieval.entity_cache
                /\ graph_retrieval'.relation_cache = graph_retrieval.relation_cache
                /\ graph_retrieval'.subgraph_cache = graph_retrieval.subgraph_cache
          /\ EngineState(graph_retrieval) = "INDEXED"
             => EngineState(graph_retrieval') = "INDEXED"
          /\ EngineState(graph_retrieval) = "CONNECTED"
             => EngineState(graph_retrieval') # "UNINITIALIZED"]_vars

----------------------------------------------------------------------------
(* C24 *)

\* C24: retrieve merges the keyword, vector and graph-expansion lists by
\* round-robin: it returns min(top_k, number of distinct candidates)
\* distinct candidates, the first of them the first item of the first
\* non-empty list; lists of lengths (3, 1, 0) and top_k = 3 give exactly 3.
C24_RoundRobinMerge ==
    lastRun.op = "retrieve" =>
        LET a == lastRun.args
            all == Range(a.keyword) \cup Range(a.vector) \cup Range(a.graph)
            first == Head(a.keyword \o a.vector \o a.graph)
            n == IF Cardinality(all) < a.top_k THEN Cardinality(all) ELSE a.top_k
        IN /\ lastRun.exc = "none"
           /\ Len(lastRun.value) = n
           /\ Cardinality(Range(lastRun.value)) = n
           /\ Range(lastRun.value) \subseteq all
           /\ n > 0 => lastRun.value[1] = first

----------------------------------------------------------------------------
(* C25 *)

\* C25: traverse(seed, max_depth) returns, on a graph with a cycle too, and
\* returns only nodes within max_depth hops of the seed: with max_depth = 2
\* a node three hops away is not returned.
C25_TraversalDepthBounded ==
    lastRun.op = "traverse" =>
        LET a == lastRun.args
            hop(S) == S \cup {e[2] : e \in {x \in a.edges : x[1] \in S}}
            within == IF a.max_depth = 1 THEN hop({a.seed})
                      ELSE hop(hop({a.seed}))
        IN /\ lastRun.exc = "none"
           /\ Range(lastRun.value) \subseteq within

----------------------------------------------------------------------------
(* C26 *)

\* C26: a reader never observes an intermediate state of a structure that
\* is being written: every record it sees in the entity store is listed in
\* the key index under each of its index keys, and it sees no cache that is
\* filled in part.
C26_ReadersExcluded ==
    /\ (threads.observed # <<>> /\ threads.observed.kind = "index") =>
          \A id \in DOMAIN threads.observed.store :
             \A i \in DOMAIN threads.observed.store[id].index_keys :
                LET k == threads.observed.store[id].index_keys[i]
                IN /\ k \in DOMAIN threads.observed.k2e
                   /\ id \in Range(threads.observed.k2e[k])
    /\ (threads.observed # <<>> /\ threads.observed.kind = "caches") =>
          /\ threads.observed.entity_cache # "partial"
          /\ threads.observed.relation_cache # "partial"

----------------------------------------------------------------------------
(* C27 *)

\* C27: in the graph index build of the hybrid retriever the tuple made of a
\* relation row is (source_id, target_id, relation_type), the order
\* create_relation_key_value unpacks, and every row read whose source and
\* target are both in the entity store has a relation record with that
\* source_entity, target_entity and relation_type.
C27_ExtractedRowsStored ==
    (lastRun.built /\ lastRun.queried) =>
        \A i \in DOMAIN lastRun.rows :
            LET row == lastRun.rows[i]
            IN /\ lastRun.relationships[i] = <<row[1], row[2], row[3]>>
               /\ (row[1] \in DOMAIN entity_kv_store
                   /\ row[2] \in DOMAIN entity_kv_store)
                  => \E id \in DOMAIN relation_kv_store :
                        /\ relation_kv_store[id].source_entity = row[1]
                        /\ relation_kv_store[id].target_entity = row[2]
                        /\ relation_kv_store[id].relation_type = row[3]

----------------------------------------------------------------------------
(* C28 *)

\* C28: whenever build_knowledge_base returns normally, on either path, both
\* retrievers have been initialized (the hybrid retriever holds its driver,
\* the graph engine is no longer UNINITIALIZED) and system_status is True.
C28_ReadyAfterBuild ==
    (lastRun.op = "build_knowledge_base" /\ lastRun.exc = "none") =>
        /\ system_status
        /\ traditional_retrieval.driver # "None"
        /\ EngineState(graph_retrieval) # "UNINITIALIZED"

----------------------------------------------------------------------------
(* C29 *)

\* the places of a call in the calls of the last operation
PlacesOf(name) == {i \in DOMAIN lastRun.calls : lastRun.calls[i] = name}

----------------------------------------------------------------------------
(* C30 *)

\* C30: build_vector_index called with an empty chunk list raises and
\* leaves the vector store as it was: the collection is not dropped,
\* recreated or written to, and collection_created keeps its value.
C30_EmptyChunksRejected ==
    [][lastRun'.vector.chunks = "empty"
        => /\ lastRun'.vector.exc = "ValueError"
           /\ lastRun'.exc = "ValueError"
           /\ ~lastRun'.vector.dropped
           /\ index_module'.collection = index_module.collection
           /\ index_module'.collection_created = index_module.collection_created]_vars

\* build_vector_index has rejected an empty list on a module whose
\* collection exists and is marked as created
C30_Witness ==
    /\ lastRun.op = "build_vector_index"
    /\ lastRun.vector.chunks = "empty"
    /\ lastRun.exc = "ValueError"
    /\ index_module.collection # "absent"
    /\ index_module.collection_created

====
